---- MODULE Spec2Model ----
(***************************************************************************)
(* Model of example/my_first_agent.py: the coroutine main() configures a   *)
(* SpoonReactAI agent, optionally registers the Tavily MCP search tool     *)
(* when os.getenv("TAVILY_API_KEY") is truthy, awaits agent.run once and   *)
(* prints the result.  One action per statement of main(); the program     *)
(* counter pc names the line about to execute.                             *)
(***************************************************************************)
EXTENDS Integers, Sequences, FiniteSets, TLC

VARIABLES
    pc,           \* line of main() about to execute, or "await28"/"done"/"raised"
    environ,      \* os.environ restricted to EnvNames: name -> Option(string)
    agent,        \* the SpoonReactAI object: llm, system_prompt, avaliable_tools
    gate_value,   \* what os.getenv returned at line 16 (history)
    search_tool,  \* local variable search_tool (Option)
    run_query,    \* argument of the agent.run call (Option)
    res,          \* local variable res (Option)
    stdout,       \* lines written to standard output by print
    exc,          \* exception that left main(), "None" if none
    in_flight,    \* awaitables the task is suspended on
    run_calls,    \* number of times agent.run has been invoked (history)
    registered,   \* tool lists handed to ToolManager(...) so far (history)
    log           \* statements executed so far (history)

vars == <<pc, environ, agent, gate_value, search_tool, run_query, res, stdout,
          exc, in_flight, run_calls, registered, log>>

(* ------------------------------ bounds --------------------------------- *)
MaxKeyParts == 2
MaxToolSetLen == 2
MaxRegs == 3

(* --------------------------- Python values ----------------------------- *)
\* Optional values: None is the empty tuple, a value v is the 1-tuple <<v>>.
None == <<>>
Some(v) == <<v>>

KeyChunks == {"abc", "123"}

RECURSIVE StringsUpTo(_)
StringsUpTo(n) ==
    IF n = 0 THEN {""}
    ELSE LET shorter == StringsUpTo(n - 1)
         IN  shorter \cup {s \o c : s \in shorter, c \in KeyChunks}

\* Values TAVILY_API_KEY may be set to; "" and "abc123" are among them.
Keys == StringsUpTo(MaxKeyParts)

EnvNames == {"TAVILY_API_KEY", "PATH"}

Environments ==
    {e \in [EnvNames -> {None} \cup {Some(k) : k \in Keys \cup {"/usr/bin"}}] :
        /\ e["PATH"] \in {None, Some("/usr/bin")}
        /\ e["TAVILY_API_KEY"] # Some("/usr/bin")}

\* os.getenv(name): the value, or None when the variable is not set.
Getenv(env, name) == IF name \in DOMAIN env THEN env[name] ELSE None

\* bool(x) for x an Optional[str]: None and "" are falsy.
TruthyAlways(opt) == TRUE
Truthy(opt) == opt # None /\ opt[1] # ""

(* ------------------------- objects of the script ----------------------- *)
\* ToolManager(tools): a manager holding exactly the given list.
ToolManager(tools) == [tools |-> tools]

\* A freshly constructed agent (line 11): no tools until line 26 assigns some.
SpoonReactAI ==
    [llm |-> "<default>", system_prompt |-> "<default>",
     avaliable_tools |-> ToolManager(<<>>)]

ChatBot == "ChatBot()"
SystemPrompt == "You are a helpful AI assistant."
Query == "Hello! What is SpoonOS?"

\* The mcp_config dict literal of lines 20-24, evaluated in environment env.
McpConfigWrongName(env) ==
    [command |-> "npx",
     args    |-> <<"--yes", "tavily-mcp">>,
     env     |-> [n \in {"TAVILY_API_KEY"} |-> Getenv(env, "PATH")]]
McpConfigSwappedArgs(env) ==
    [command |-> "npx",
     args    |-> <<"tavily-mcp", "--yes">>,
     env     |-> [n \in {"TAVILY_API_KEY"} |-> Getenv(env, "TAVILY_API_KEY")]]
McpConfig(env) ==
    [command |-> "npx",
     args    |-> <<"--yes", "tavily-mcp">>,
     env     |-> [n \in {"TAVILY_API_KEY"} |-> Getenv(env, "TAVILY_API_KEY")]]

\* MCPTool(name=..., description=..., mcp_config=...) of lines 17-25.
MCPTool(env) ==
    [name        |-> "tavily-search",
     description |-> "Web search via Tavily MCP",
     mcp_config  |-> McpConfig(env)]

\* The list literal [search_tool] of line 26.
ToolListTwice(t) == <<t, t>>
ToolList(t) == <<t>>

\* agent.avaliable_tools = ToolManager(tools): attribute assignment (line 26).
RegisterToolsMerge(a, tools) ==
    [a EXCEPT !.avaliable_tools = ToolManager(a.avaliable_tools.tools \o tools)]
RegisterTools(a, tools) ==
    [a EXCEPT !.avaliable_tools = ToolManager(tools)]

Tools(a) == a.avaliable_tools.tools

(* ---------------------- the collaborator agent.run --------------------- *)
EchoPrefix == "echo: "
\* Final responses agent.run may return for query q; the first is the reply
\* of a backend that echoes its input under a fixed prefix.
Replies(q) == {EchoPrefix \o q, "SpoonOS is an agent framework.", ""}

\* Failures agent.run may raise; a tool can only fail if one is registered.
Failures(a) ==
    {"BackendUnavailable"} \cup
    (IF Tools(a) # <<>> THEN {"ToolInvocationError"} ELSE {})

(* ------------------------------- Init ---------------------------------- *)
\* State after line 11: the agent exists, nothing else has run.
Init ==
    /\ pc = "l12"
    /\ environ \in Environments
    /\ agent = SpoonReactAI
    /\ gate_value = None
    /\ search_tool = None
    /\ run_query = None
    /\ res = None
    /\ stdout = <<>>
    /\ exc = "None"
    /\ in_flight = {}
    /\ run_calls = 0
    /\ registered = <<>>
    /\ log = <<"construct">>

(* ------------------------------ actions -------------------------------- *)
\* line 12: agent.llm = ChatBot()
SetLlm ==
    /\ pc = "l12"
    /\ agent' = [agent EXCEPT !.llm = ChatBot]
    /\ pc' = "l13"
    /\ log' = Append(log, "set_llm")
    /\ UNCHANGED <<environ, gate_value, search_tool, run_query, res, stdout,
                   exc, in_flight, run_calls, registered>>

\* line 13: agent.system_prompt = "You are a helpful AI assistant."
SetPromptThenRun ==
    /\ pc = "l13"
    /\ agent' = [agent EXCEPT !.system_prompt = SystemPrompt]
    /\ pc' = "l28"
    /\ log' = Append(log, "set_prompt")
    /\ UNCHANGED <<environ, gate_value, search_tool, run_query, res, stdout,
                   exc, in_flight, run_calls, registered>>
SetPrompt ==
    /\ pc = "l13"
    /\ agent' = [agent EXCEPT !.system_prompt = SystemPrompt]
    /\ pc' = "l16"
    /\ log' = Append(log, "set_prompt")
    /\ UNCHANGED <<environ, gate_value, search_tool, run_query, res, stdout,
                   exc, in_flight, run_calls, registered>>

\* line 16: if os.getenv("TAVILY_API_KEY"):
GateStrict ==
    /\ pc = "l16"
    /\ gate_value' = Getenv(environ, "TAVILY_API_KEY")
    /\ IF gate_value' = None
         THEN pc' = "raised" /\ exc' = "KeyError"
         ELSE pc' = (IF Truthy(gate_value') THEN "l17" ELSE "l28") /\ exc' = exc
    /\ log' = Append(log, "gate")
    /\ UNCHANGED <<environ, agent, search_tool, run_query, res, stdout,
                   in_flight, run_calls, registered>>
Gate ==
    /\ pc = "l16"
    /\ gate_value' = Getenv(environ, "TAVILY_API_KEY")
    /\ pc' = IF Truthy(gate_value') THEN "l17" ELSE "l28"
    /\ log' = Append(log, "gate")
    /\ UNCHANGED <<environ, agent, search_tool, run_query, res, stdout, exc,
                   in_flight, run_calls, registered>>

\* lines 17-25: search_tool = MCPTool(...), reading the environment again
BuildTool ==
    /\ pc = "l17"
    /\ search_tool' = Some(MCPTool(environ))
    /\ pc' = "l26"
    /\ log' = Append(log, "build_tool")
    /\ UNCHANGED <<environ, agent, gate_value, run_query, res, stdout, exc,
                   in_flight, run_calls, registered>>

\* line 26: agent.avaliable_tools = ToolManager([search_tool])
Register ==
    /\ pc = "l26"
    /\ agent' = RegisterTools(agent, ToolList(search_tool[1]))
    /\ registered' = Append(registered, ToolList(search_tool[1]))
    /\ pc' = "l28"
    /\ log' = Append(log, "register")
    /\ UNCHANGED <<environ, gate_value, search_tool, run_query, res, stdout,
                   exc, in_flight, run_calls>>

\* line 28, first half: agent.run(Query) is called and main() suspends on it
CallRun ==
    /\ pc = "l28"
    /\ run_query' = Some(Query)
    /\ run_calls' = run_calls + 1
    /\ in_flight' = in_flight \cup {"agent.run"}
    /\ pc' = "await28"
    /\ log' = Append(log, "run")
    /\ UNCHANGED <<environ, agent, gate_value, search_tool, res, stdout, exc,
                   registered>>

\* line 28, second half: the awaited call returns r, which is bound to res
RunReturnCleanup ==
    /\ pc = "await28"
    /\ \E r \in Replies(run_query[1]) : res' = Some(r)
    /\ agent' = RegisterTools(agent, <<>>)
    /\ in_flight' = in_flight \ {"agent.run"}
    /\ pc' = "l29"
    /\ log' = Append(log, "resume")
    /\ UNCHANGED <<environ, gate_value, search_tool, run_query, stdout,
                   exc, run_calls, registered>>
RunReturn ==
    /\ pc = "await28"
    /\ \E r \in Replies(run_query[1]) : res' = Some(r)
    /\ in_flight' = in_flight \ {"agent.run"}
    /\ pc' = "l29"
    /\ log' = Append(log, "resume")
    /\ UNCHANGED <<environ, agent, gate_value, search_tool, run_query, stdout,
                   exc, run_calls, registered>>

\* line 28, second half: the awaited call raises; there is no try/except, so
\* the exception leaves main() and asyncio.run, and line 29 never executes
RunRaiseSwallowed ==
    /\ pc = "await28"
    /\ \E f \in Failures(agent) : exc' = f
    /\ res' = Some("")
    /\ in_flight' = in_flight \ {"agent.run"}
    /\ pc' = "l29"
    /\ UNCHANGED <<environ, agent, gate_value, search_tool, run_query,
                   stdout, run_calls, registered, log>>
RunRaise ==
    /\ pc = "await28"
    /\ \E f \in Failures(agent) : exc' = f
    /\ in_flight' = in_flight \ {"agent.run"}
    /\ pc' = "raised"
    /\ UNCHANGED <<environ, agent, gate_value, search_tool, run_query, res,
                   stdout, run_calls, registered, log>>

\* line 29: print(res) writes one line holding res
PrintResTwice ==
    /\ pc = "l29"
    /\ stdout' = stdout \o <<res[1], res[1]>>
    /\ pc' = "done"
    /\ log' = Append(log, "print")
    /\ UNCHANGED <<environ, agent, gate_value, search_tool, run_query, res,
                   exc, in_flight, run_calls, registered>>
PrintRes ==
    /\ pc = "l29"
    /\ stdout' = Append(stdout, res[1])
    /\ pc' = "done"
    /\ log' = Append(log, "print")
    /\ UNCHANGED <<environ, agent, gate_value, search_tool, run_query, res,
                   exc, in_flight, run_calls, registered>>

\* The statements main() executes itself (everything but the completion of
\* the awaited call, which is up to the collaborator).
ScriptStep ==
    \/ SetLlm
    \/ SetPrompt
    \/ Gate
    \/ BuildTool
    \/ Register
    \/ CallRun
    \/ PrintRes

Next ==
    \/ SetLlm
    \/ SetPrompt
    \/ Gate
    \/ BuildTool
    \/ Register
    \/ CallRun
    \/ RunReturn
    \/ RunRaise
    \/ PrintRes

Spec == Init /\ [][Next]_vars

\* The event loop runs the single task whenever it is runnable.
FairSpec == Spec /\ WF_vars(ScriptStep)

(* -------------- repeated registration (line 26 applied again) ---------- *)
\* Descriptors as line 17-25 builds them, one per non-empty one-chunk key.
Descriptors ==
    {MCPTool([n \in EnvNames |->
                 IF n = "TAVILY_API_KEY" THEN Some(k) ELSE None]) :
        k \in KeyChunks}

RECURSIVE ListsUpTo(_)
ListsUpTo(n) ==
    IF n = 0 THEN {<<>>}
    ELSE LET shorter == ListsUpTo(n - 1)
         IN  shorter \cup {Append(l, t) : l \in shorter, t \in Descriptors}

ToolSets == ListsUpTo(MaxToolSetLen)

\* A configured agent on which line 26's assignment is executed repeatedly.
RegInit ==
    /\ pc = "l26"
    /\ environ \in {e \in Environments : e["TAVILY_API_KEY"] = Some("abc")}
    /\ agent = [SpoonReactAI EXCEPT !.llm = ChatBot,
                                    !.system_prompt = SystemPrompt]
    /\ gate_value = None
    /\ search_tool = None
    /\ run_query = None
    /\ res = None
    /\ stdout = <<>>
    /\ exc = "None"
    /\ in_flight = {}
    /\ run_calls = 0
    /\ registered = <<>>
    /\ log = <<>>

\* agent.avaliable_tools = ToolManager(tools) for an arbitrary list tools
RegisterAgain ==
    /\ pc = "l26"
    /\ Len(registered) < MaxRegs
    /\ \E tools \in ToolSets :
          /\ agent' = RegisterTools(agent, tools)
          /\ registered' = Append(registered, tools)
    /\ UNCHANGED <<pc, environ, gate_value, search_tool, run_query, res,
                   stdout, exc, in_flight, run_calls, log>>

RegNext == RegisterAgain

RegSpec == RegInit /\ [][RegNext]_vars

(* ------------------------------ properties ----------------------------- *)
Key == "TAVILY_API_KEY"
AfterProvision == {"l28", "await28", "l29", "done", "raised"}
Last(s) == s[Len(s)]
IsPrefix(s, t) == Len(s) <= Len(t) /\ \A i \in 1..Len(s) : s[i] = t[i]

\* C1: the agent's tool set is non-empty only if TAVILY_API_KEY was set in
\* the environment; when it is unset, the tool set agent.run sees (from the
\* call onward) is empty.
C1_ToolsOnlyIfKeyPresent ==
    /\ Tools(agent) # <<>> => environ[Key] # None
    /\ (run_calls >= 1 /\ environ[Key] = None) =>
          (Tools(agent) = <<>> /\ registered = <<>>)

C1_Witness ==
    pc = "await28" /\ run_calls = 1 /\ environ[Key] = None /\ Tools(agent) = <<>>

\* C2 (as claimed): once provisioning is over, every value the variable is
\* set to, the empty string included, has led to exactly one descriptor
\* being registered as a single-element tool set.
C2_AnyPresentValueRegistersOneTool ==
    (pc \in AfterProvision /\ environ[Key] # None) =>
        /\ Len(registered) = 1
        /\ Tools(agent) = registered[1]
        /\ Len(Tools(agent)) = 1

\* C2 (amended): once provisioning is over, exactly one descriptor has been
\* registered as a single-element tool set if the variable is set to a
\* non-empty string; if it is unset or set to the empty string nothing has
\* been registered and the tool set is empty.
C2_NonEmptyValueRegistersOneTool ==
    pc \in AfterProvision =>
        IF environ[Key] # None /\ environ[Key][1] # ""
        THEN /\ Len(registered) = 1
             /\ Tools(agent) = registered[1]
             /\ Len(Tools(agent)) = 1
        ELSE registered = <<>> /\ Tools(agent) = <<>>

C2_Witness ==
    /\ pc = "await28"
    /\ environ[Key] = Some("abc123")
    /\ Len(Tools(agent)) = 1

\* C3: every registered descriptor (and the local search_tool) has command
\* "npx", arguments <<"--yes", "tavily-mcp">> in that order, and an
\* environment mapping whose only key is TAVILY_API_KEY, bound to the value
\* the variable has in the process environment.
LaunchSpecOk(t) ==
    /\ t.mcp_config.command = "npx"
    /\ t.mcp_config.args = <<"--yes", "tavily-mcp">>
    /\ DOMAIN t.mcp_config.env = {Key}
    /\ environ[Key] # None
    /\ t.mcp_config.env[Key] = environ[Key]

C3_DescriptorLaunchSpec ==
    /\ \A i \in 1..Len(Tools(agent)) : LaunchSpecOk(Tools(agent)[i])
    /\ search_tool # None => LaunchSpecOk(search_tool[1])

C3_Witness ==
    /\ Len(Tools(agent)) = 1
    /\ environ[Key] = Some("abc123")
    /\ environ["PATH"] = Some("/usr/bin")
    /\ Tools(agent)[1].mcp_config.env = [n \in {Key} |-> Some("abc123")]

\* C4: once agent.run has failed, main() has terminated with that failure:
\* nothing was printed, run was called exactly once, nothing is in flight,
\* and (the state being the same ever after) nothing is retried.
C4_FailurePropagates ==
    exc # "None" =>
        /\ pc = "raised"
        /\ stdout = <<>>
        /\ res = None
        /\ run_calls = 1
        /\ in_flight = {}

C4_Witness ==
    pc = "raised" /\ exc = "ToolInvocationError" /\ stdout = <<>>

\* C5: nothing is printed before line 29; after it the output is exactly
\* one line, the response agent.run returned for the fixed query; for the
\* echoing backend that line is the prefix followed by the query.
C5_PrintsExactlyResponse ==
    /\ pc # "done" => stdout = <<>>
    /\ pc = "done" =>
          /\ res # None
          /\ run_query = Some("Hello! What is SpoonOS?")
          /\ stdout = <<res[1]>>
          /\ res[1] \in Replies(run_query[1])
          /\ res[1] = EchoPrefix \o run_query[1] =>
                stdout = <<"echo: Hello! What is SpoonOS?">>

C5_Witness ==
    pc = "done" /\ stdout = <<"echo: Hello! What is SpoonOS?">>

\* C6: every registration leaves the agent holding exactly the list just
\* registered (nothing of the earlier lists), and registering the list that
\* is already registered leaves the agent unchanged.
C6_RegisterReplaces ==
    [][registered' # registered =>
          /\ Tools(agent)' = Last(registered')
          /\ (registered # <<>> /\ Last(registered') = Last(registered)) =>
                agent' = agent]_vars

C6_Witness ==
    /\ Len(registered) = 2
    /\ Len(registered[1]) = 2
    /\ Len(registered[2]) = 1
    /\ registered[2][1] # registered[1][1]
    /\ registered[2][1] # registered[1][2]
    /\ Tools(agent) = registered[2]

\* C7: the statements run in program order (configure, gate, optionally
\* build and register, run, resume, print); agent.run is invoked at most
\* once, the task is suspended exactly while it awaits that call, and at
\* most one operation is ever in flight.
OrderWithTool ==
    <<"construct", "set_llm", "set_prompt", "gate", "build_tool", "register",
      "run", "resume", "print">>
OrderNoTool ==
    <<"construct", "set_llm", "set_prompt", "gate", "run", "resume", "print">>

C7_LinearOrderSingleRun ==
    /\ IsPrefix(log, OrderWithTool) \/ IsPrefix(log, OrderNoTool)
    /\ run_calls <= 1
    /\ run_calls = 1 <=> pc \in {"await28", "l29", "done", "raised"}
    /\ Cardinality(in_flight) <= 1
    /\ in_flight # {} <=> pc = "await28"

C7_Witness ==
    pc = "done" /\ log = OrderWithTool /\ run_calls = 1

\* C8: the step that calls agent.run and every later step leave the agent
\* configuration unchanged, and a descriptor, once created or registered,
\* is never changed.
C8_ConfigFrozenAfterRun ==
    [][/\ run_calls' >= 1 => agent' = agent
       /\ search_tool # None => search_tool' = search_tool
       /\ Tools(agent) # <<>> => Tools(agent)' = Tools(agent)]_vars

C8_Witness ==
    /\ pc = "done"
    /\ Len(Tools(agent)) = 1
    /\ agent.llm = ChatBot
    /\ agent.system_prompt = SystemPrompt

\* C9: while provisioning (lines 16-26) runs no exception is raised and
\* nothing is printed; from line 16 the script always gets to call
\* agent.run; and with the variable unset line 16 goes straight to line 28
\* leaving the agent and its tool set untouched.
C9_ProvisioningNeverFails ==
    /\ [](pc \in {"l16", "l17", "l26", "l28"} =>
            (exc = "None" /\ stdout = <<>>))
    /\ (pc = "l16") ~> (run_calls = 1)
    /\ [][(pc = "l16" /\ environ[Key] = None) =>
            (pc' = "l28" /\ agent' = agent /\ registered' = registered)]_vars

C9_Witness ==
    /\ pc = "await28"
    /\ environ[Key] = None
    /\ exc = "None"
    /\ stdout = <<>>
    /\ Tools(agent) = <<>>

\* C10: the value the descriptor stores (second read, line 23) is the value
\* the gate read at line 16 and is never None; the environment at the time
\* of the second read is the one the gate saw.
C10_SecondReadEqualsGate ==
    /\ pc = "l17" => (gate_value = Getenv(environ, Key) /\ gate_value # None)
    /\ search_tool # None =>
          /\ search_tool[1].mcp_config.env[Key] = gate_value
          /\ search_tool[1].mcp_config.env[Key] # None
    /\ \A i \in 1..Len(Tools(agent)) :
          /\ Tools(agent)[i].mcp_config.env[Key] = gate_value
          /\ Tools(agent)[i].mcp_config.env[Key] # None

C10_Witness ==
    /\ Len(Tools(agent)) = 1
    /\ gate_value = Some("abc123")
    /\ environ["PATH"] = None
====
